---- MODULE Spec2Model ----
(***************************************************************************)
(* Model of the Sabertooth 2x60 "Packet Serial" encoder (PacketSerial<T>)  *)
(* of saberrs: src/sabertooth2x60/packetserial.rs, with the numeric        *)
(* helpers of src/utils.rs and the error conversions of src/error.rs.      *)
(*                                                                         *)
(* Every handler is a pure operator from the encoder's address, the        *)
(* argument and the transport's answers to the returned Result and the     *)
(* ordered list of calls it made on the transport (`log`).  An action      *)
(* applies one handler and lets the transport take the effect of the log.  *)
(***************************************************************************)
EXTENDS Integers, Sequences, FiniteSets

VARIABLES
    address,          \* PacketSerial.address (u8)
    baud,             \* baud rate the transport `dev` is configured for
    frames_sent,      \* number of frames `dev` has accepted so far
    overflow_checks,  \* build profile: TRUE = arithmetic overflow panics
    last,             \* the most recent call: operation, argument, state
                      \* before it, transport calls it made, its result
    prev              \* when the most recent call repeated the call before
                      \* it (same operation, same argument): that call's
                      \* result and the frames it put on the wire

vars == <<address, baud, frames_sent, overflow_checks, last, prev>>

\* ------------------------------------------------------------------ bounds
\* Calls are accepted until the transport has taken this many frames.
MaxFrames == 2

\* ------------------------------------------------------- program constants
DEFAULT_ADDRESS == 128
MAX_SERIAL_TIMEOUT_MS == 12700

\* ------------------------------------------------------------ input sets
Addresses == {128, 129, 255}
ValidBaudRates == {2400, 9600, 19200, 38400, 115200}
BaudArgs == ValidBaudRates \cup {0, 57600}
U8Args == {0, 1, 3, 4, 127, 128, 129, 255}
I8Args == {-128, -127, -1, 0, 1, 100, 127}
MsArgs == {0, 1, 99, 100, 9999, 10000, 12700, 12701, 13000, 65535}
I8All == -128 .. 127

\* io::Error values the transport's write_all can fail with
IoErrors ==
    { [kind |-> "TimedOut", msg |-> "Operation timed out"],
      [kind |-> "InvalidInput", msg |-> "Invalid argument"] }

\* ------------------------------------------------------------- results
Ok == [tag |-> "Ok"]
Panic == [tag |-> "Panic"]
Err(kind_, description_) ==
    [tag |-> "Err", kind |-> kind_, description |-> description_]

\* ErrorKind
KindSerial(sub) == <<"Serial", sub>>
KindInvalidInput == <<"InvalidInput">>
KindResponse == <<"Response">>
KindUnknown == <<"Unknwown">>

\* serialport::Error::from(io::Error): kind Io(io kind), description the
\* io error's Display text
SerialportFromIo(err) ==
    [kind |-> <<"Io", err.kind>>, description |-> err.msg]

\* variant: the transport error is reported with the catch-all kind
FromSerialportError_unknown(err) == Err(KindUnknown, err.description)

\* impl From<serialport::Error> for Error
FromSerialportError(err) == Err(KindSerial(err.kind), err.description)

\* impl From<io::Error> for Error
FromIoError(err) == FromSerialportError(SerialportFromIo(err))

\* Errors the transport's own set_baud_rate can return
DevBaudErrors ==
    { FromSerialportError([kind |-> <<"NoDevice">>,
                           description |-> "device disconnected"]) }

\* answers of the transport to write_all and to set_baud_rate
WriteAnswers == {Ok} \cup IoErrors
BaudAnswers == {Ok} \cup DevBaudErrors

\* ------------------------------------------------------------- utils.rs
\* checksum: sum of the bytes in u32, masked with 0x7f.  The sum of the
\* three bytes of a frame is at most 765, far below 2^32, so the u32 sum is
\* the exact sum.
RECURSIVE SumBytes(_)
SumBytes(data) ==
    IF data = <<>> THEN 0 ELSE Head(data) + SumBytes(Tail(data))

\* variant: the sum is cut to a byte instead of to 7 bits
checksum_mask_ff(data) == SumBytes(data) % 256

checksum(data) == SumBytes(data) % 128

\* One arithmetic step in an unsigned type of `bits` bits: the wrapped
\* value and whether the exact value left the type's range.
Wrap(x, bits) == x % (2 ^ bits)
Overflows(x, bits) == x < 0 \/ x >= 2 ^ bits

\* map_range in an unsigned integer type of width `bits`:
\*   to.0 + (s - from.0) * (to.1 - to.0) / (from.1 - from.0)
\* evaluated in Rust's order ((a * b) / c), each step in the type.
\* value: the result with wrapping steps; overflow: some step overflowed
\* (or the divisor is zero), which panics when overflow checks are on
\* (division by zero panics in every build).
map_range(from_range, to_range, s, bits) ==
    LET d1 == s - from_range[1]
        w1 == Wrap(d1, bits)
        d2 == to_range[2] - to_range[1]
        w2 == Wrap(d2, bits)
        p  == w1 * w2
        wp == Wrap(p, bits)
        d3 == from_range[2] - from_range[1]
        w3 == Wrap(d3, bits)
        q  == IF w3 = 0 THEN 0 ELSE wp \div w3
        r  == to_range[1] + q
    IN  [value    |-> Wrap(r, bits),
         overflow |-> Overflows(d1, bits) \/ Overflows(d2, bits)
                      \/ Overflows(p, bits) \/ Overflows(d3, bits)
                      \/ Overflows(r, bits),
         divzero  |-> w3 = 0]

min(a, b) == IF a <= b THEN a ELSE b
max(a, b) == IF a >= b THEN a ELSE b

\* `x as u8`
as_u8(x) == x % 256

\* ------------------------------------------------------ packetserial.rs
\* A handler's outcome: the Result it returns and the transport calls it
\* made, in order.
Outcome(result_, log_) == [result |-> result_, log |-> log_]

WriteCall(txdata, w) == [call |-> "write_all", bytes |-> txdata, ret |-> w]
BaudCall(rate, s) == [call |-> "set_baud_rate", rate |-> rate, ret |-> s]

\* variant: a running frame counter is folded into the checksum
write_sequenced(self, command, data, w) ==
    LET txdata == <<self, command, data,
                    checksum(<<self, command, data, frames_sent>>)>>
    IN  Outcome(IF w = Ok THEN Ok ELSE FromIoError(w),
                <<WriteCall(txdata, w)>>)

\* PacketSerial::write; w is the transport's answer to write_all
write(self, command, data, w) ==
    LET txdata == <<self, command, data, checksum(<<self, command, data>>)>>
    IN  Outcome(IF w = Ok THEN Ok ELSE FromIoError(w),
                <<WriteCall(txdata, w)>>)

\* variant: the magnitude is negated in i8 without the clamp to -127
write_motor_command_unclamped(self, forward_command, backward_command, value, w) ==
    IF value >= 0
    THEN write(self, forward_command, as_u8(value), w)
    ELSE write(self, backward_command,
               as_u8(IF value = -128 THEN -128 ELSE -value), w)

\* PacketSerial::write_motor_command
write_motor_command(self, forward_command, backward_command, value, w) ==
    IF value >= 0
    THEN write(self, forward_command, as_u8(min(127, value)), w)
    ELSE write(self, backward_command, as_u8(-max(-127, value)), w)

\* variant: the upper limit is not enforced
set_serial_timeout_unvalidated(self, ms, w) ==
    LET units == IF ms > 0 /\ ms < 100 THEN 1 ELSE ms \div 100
        m == map_range(<<0, MAX_SERIAL_TIMEOUT_MS>>, <<0, 127>>, units, 16)
    IN  IF m.divzero \/ (m.overflow /\ overflow_checks)
        THEN Outcome(Panic, <<>>)
        ELSE write(self, 14, as_u8(m.value), w)

\* set_serial_timeout (ms: u16)
set_serial_timeout(self, ms, w) ==
    IF ms > MAX_SERIAL_TIMEOUT_MS
    THEN Outcome(Err(KindInvalidInput,
                     "timeout must be less than or equal to 12700"), <<>>)
    ELSE LET units == IF ms > 0 /\ ms < 100 THEN 1 ELSE ms \div 100
             m == map_range(<<0, MAX_SERIAL_TIMEOUT_MS>>, <<0, 127>>,
                            units, 16)
         IN  IF m.divzero \/ (m.overflow /\ overflow_checks)
             THEN Outcome(Panic, <<>>)
             ELSE write(self, 14, as_u8(m.value), w)

\* the match of set_baud_rate; 0 stands for the `_` arm
BaudCode(baud_rate) ==
    CASE baud_rate = 2400 -> 1
      [] baud_rate = 9600 -> 2
      [] baud_rate = 19200 -> 3
      [] baud_rate = 38400 -> 4
      [] baud_rate = 115200 -> 5
      [] OTHER -> 0

\* variant: the transport is reconfigured before the frame is written
set_baud_rate_reconfigure_first(self, baud_rate, w, s) ==
    IF BaudCode(baud_rate) = 0
    THEN Outcome(Err(KindInvalidInput, "invalid baud rate"), <<>>)
    ELSE IF s # Ok
         THEN Outcome(s, <<BaudCall(baud_rate, s)>>)
         ELSE LET wr == write(self, 15, BaudCode(baud_rate), w)
              IN  Outcome(wr.result, <<BaudCall(baud_rate, s)>> \o wr.log)

\* variant: the result of the frame write is dropped (no `?`)
set_baud_rate_ignore_write_error(self, baud_rate, w, s) ==
    IF BaudCode(baud_rate) = 0
    THEN Outcome(Err(KindInvalidInput, "invalid baud rate"), <<>>)
    ELSE LET wr == write(self, 15, BaudCode(baud_rate), w)
         IN  Outcome(s, wr.log \o <<BaudCall(baud_rate, s)>>)

\* set_baud_rate (baud_rate: u32); s is the transport's answer to its own
\* set_baud_rate
set_baud_rate(self, baud_rate, w, s) ==
    IF BaudCode(baud_rate) = 0
    THEN Outcome(Err(KindInvalidInput, "invalid baud rate"), <<>>)
    ELSE LET wr == write(self, 15, BaudCode(baud_rate), w)
         IN  IF wr.result # Ok
             THEN wr
             ELSE Outcome(s, wr.log \o <<BaudCall(baud_rate, s)>>)

\* set_ramping (rate: u8)
set_ramping(self, rate, w) ==
    LET m == map_range(<<0, 255>>, <<0, 80>>, rate, 8)
    IN  IF m.divzero \/ (m.overflow /\ overflow_checks)
        THEN Outcome(Panic, <<>>)
        ELSE write(self, 16, m.value, w)

\* set_deadband (deadband: u8)
set_deadband(self, deadband, w) ==
    LET m == map_range(<<0, 255>>, <<0, 127>>, deadband, 8)
    IN  IF m.divzero \/ (m.overflow /\ overflow_checks)
        THEN Outcome(Panic, <<>>)
        ELSE write(self, 17, m.value, w)

drive_m1(self, value, w) == write_motor_command(self, 0, 1, value, w)
drive_m2(self, value, w) == write_motor_command(self, 4, 5, value, w)
drive_mixed(self, value, w) == write_motor_command(self, 8, 9, value, w)
turn_mixed(self, value, w) == write_motor_command(self, 10, 11, value, w)

\* set_min_voltage / set_max_voltage are declared by the trait but their
\* PacketSerial bodies are not part of the sources at hand; they follow the
\* operation table: the raw units are written unchanged as the data byte.
\* Command codes 2 and 3 are the two the wire format leaves to them.
set_min_voltage(self, units, w) == write(self, 2, units, w)
set_max_voltage(self, units, w) == write(self, 3, units, w)

\* ------------------------------------------------------------- transport
\* frames the transport accepted among the calls of a log
RECURSIVE AcceptedFrames(_)
AcceptedFrames(log) ==
    IF log = <<>> THEN <<>>
    ELSE IF Head(log).call = "write_all" /\ Head(log).ret = Ok
         THEN <<Head(log).bytes>> \o AcceptedFrames(Tail(log))
         ELSE AcceptedFrames(Tail(log))

\* baud rate of the transport after the calls of a log, starting from b
RECURSIVE BaudAfter(_, _)
BaudAfter(log, b) ==
    IF log = <<>> THEN b
    ELSE IF Head(log).call = "set_baud_rate" /\ Head(log).ret = Ok
         THEN BaudAfter(Tail(log), Head(log).rate)
         ELSE BaudAfter(Tail(log), b)

Before == [address |-> address, baud |-> baud, frames_sent |-> frames_sent]

\* what `prev` holds when the last call did not repeat the one before it
NoRepeat == [same |-> FALSE, result |-> Ok, frames |-> <<>>]

\* one call of a handler: record it and let the transport take its log
Call(op, arg, out) ==
    /\ last.result # Panic
    /\ frames_sent < MaxFrames
    /\ last' = [op |-> op, arg |-> arg, before |-> Before,
                log |-> out.log, result |-> out.result]
    /\ frames_sent' = frames_sent + Len(AcceptedFrames(out.log))
    /\ baud' = BaudAfter(out.log, baud)
    /\ prev' = IF op = last.op /\ arg = last.arg
               THEN [same |-> TRUE, result |-> last.result,
                     frames |-> AcceptedFrames(last.log)]
               ELSE NoRepeat
    /\ UNCHANGED <<address, overflow_checks>>

\* ---------------------------------------------------------------- actions
\* PacketSerial::with_address
WithAddress ==
    \E a \in Addresses :
        /\ last.result # Panic
        /\ address' = a
        /\ last' = [op |-> "with_address", arg |-> a, before |-> Before,
                    log |-> <<>>, result |-> Ok]
        /\ prev' = NoRepeat
        /\ UNCHANGED <<baud, frames_sent, overflow_checks>>

SetMinVoltage ==
    \E units \in U8Args, w \in WriteAnswers :
        Call("set_min_voltage", units, set_min_voltage(address, units, w))

SetMaxVoltage ==
    \E units \in U8Args, w \in WriteAnswers :
        Call("set_max_voltage", units, set_max_voltage(address, units, w))

SetSerialTimeout ==
    \E ms \in MsArgs, w \in WriteAnswers :
        Call("set_serial_timeout", ms, set_serial_timeout(address, ms, w))

SetBaudRate ==
    \E b \in BaudArgs, w \in WriteAnswers, s \in BaudAnswers :
        Call("set_baud_rate", b, set_baud_rate(address, b, w, s))

SetRamping ==
    \E rate \in U8Args, w \in WriteAnswers :
        Call("set_ramping", rate, set_ramping(address, rate, w))

SetDeadband ==
    \E d \in U8Args, w \in WriteAnswers :
        Call("set_deadband", d, set_deadband(address, d, w))

DriveM1(values) ==
    \E v \in values, w \in WriteAnswers :
        Call("drive_m1", v, drive_m1(address, v, w))

DriveM2(values) ==
    \E v \in values, w \in WriteAnswers :
        Call("drive_m2", v, drive_m2(address, v, w))

DriveMixed(values) ==
    \E v \in values, w \in WriteAnswers :
        Call("drive_mixed", v, drive_mixed(address, v, w))

TurnMixed(values) ==
    \E v \in values, w \in WriteAnswers :
        Call("turn_mixed", v, turn_mixed(address, v, w))

\* ---------------------------------------------------------- specification
\* PacketSerial::from(dev): default address over an open transport
Init ==
    /\ address = DEFAULT_ADDRESS
    /\ baud \in ValidBaudRates
    /\ frames_sent = 0
    /\ overflow_checks \in BOOLEAN
    /\ last = [op |-> "from", arg |-> 0,
               before |-> [address |-> DEFAULT_ADDRESS, baud |-> baud,
                           frames_sent |-> 0],
               log |-> <<>>, result |-> Ok]
    /\ prev = NoRepeat

Next ==
    \/ WithAddress
    \/ SetMinVoltage
    \/ SetMaxVoltage
    \/ SetSerialTimeout
    \/ SetBaudRate
    \/ SetRamping
    \/ SetDeadband
    \/ DriveM1(I8Args)
    \/ DriveM2(I8Args)
    \/ DriveMixed(I8Args)
    \/ TurnMixed(I8Args)

Spec == Init /\ [][Next]_vars

\* The motor commands over the whole i8 domain, one call on a freshly
\* built encoder with any of the addresses.
FirstCall == last.op \in {"from", "with_address"}

NextMotor ==
    \/ (last.op = "from" /\ WithAddress)
    \/ (FirstCall /\ DriveM1(I8All))
    \/ (FirstCall /\ DriveM2(I8All))
    \/ (FirstCall /\ DriveMixed(I8All))
    \/ (FirstCall /\ TurnMixed(I8All))

SpecMotor == Init /\ [][NextMotor]_vars

\* ================================================================ claims
CommandOps ==
    {"set_min_voltage", "set_max_voltage", "set_serial_timeout",
     "set_baud_rate", "set_ramping", "set_deadband",
     "drive_m1", "drive_m2", "drive_mixed", "turn_mixed"}
MotorOps == {"drive_m1", "drive_m2", "drive_mixed", "turn_mixed"}

\* the write_all calls of the last operation, and the failed ones
WriteIdx == {i \in DOMAIN last.log : last.log[i].call = "write_all"}
FailedWriteIdx == {i \in WriteIdx : last.log[i].ret # Ok}
BaudIdx == {i \in DOMAIN last.log : last.log[i].call = "set_baud_rate"}
\* the transport answered Ok to whatever the last operation asked of it
TransportWorked == \A i \in DOMAIN last.log : last.log[i].ret = Ok
IsByte(x) == x \in 0 .. 255

\* C1: a command-surface call that returns success has appended exactly one
\* frame to the transport, of exactly 4 bytes
\* [a, command, data, (a + command + data) & 0x7F] with a the encoder's
\* address; the checksum covers address, command and data only.
C1_OneFramePerSuccess ==
    (last.op \in CommandOps /\ last.result = Ok) =>
        /\ frames_sent = last.before.frames_sent + 1
        /\ Cardinality(WriteIdx) = 1
        /\ Len(AcceptedFrames(last.log)) = 1
        /\ LET f == AcceptedFrames(last.log)[1]
           IN  /\ Len(f) = 4
               /\ \A i \in 1 .. 4 : IsByte(f[i])
               /\ f[1] = last.before.address
               /\ f[4] = (f[1] + f[2] + f[3]) % 128

C1_Witness ==
    /\ last.op = "drive_m1" /\ last.arg = 100 /\ last.result = Ok
    /\ last.before.address = 255
    /\ last.before.frames_sent = 1 /\ frames_sent = 2
    /\ last.log[1].bytes = <<255, 0, 100, 99>>

\* C2: for every v in -128..127 the four motor commands write the forward
\* code (0, 4, 8, 10) with data min(127, v) when v >= 0 and the backward
\* code (1, 5, 9, 11) with data -(max(-127, v)) when v < 0; -128 goes out
\* as backward with data 127 and 0 as forward with data 0.
ForwardCode(op) ==
    CASE op = "drive_m1" -> 0 [] op = "drive_m2" -> 4
      [] op = "drive_mixed" -> 8 [] op = "turn_mixed" -> 10
BackwardCode(op) == ForwardCode(op) + 1

C2_MotorEncoding ==
    (last.op \in MotorOps) =>
        /\ Len(last.log) = 1
        /\ last.log[1].call = "write_all"
        /\ LET v == last.arg
               f == last.log[1].bytes
           IN  /\ v >= 0 => /\ f[2] = ForwardCode(last.op)
                            /\ f[3] = (IF v > 127 THEN 127 ELSE v)
               /\ v < 0 => /\ f[2] = BackwardCode(last.op)
                           /\ f[3] = (IF v < -127 THEN 127 ELSE 0 - v)
               /\ v = -128 => f[3] = 127
               /\ v = 0 => (f[2] = ForwardCode(last.op) /\ f[3] = 0)

C2_Witness ==
    /\ last.op = "turn_mixed" /\ last.arg = -128 /\ last.result = Ok
    /\ last.log[1].bytes[2] = 11 /\ last.log[1].bytes[3] = 127

\* C3: for every rate in 0..255, set_ramping(rate) on a working transport
\* succeeds and writes one frame with command 16 and data
\* (rate * 80) div 255, so 0 goes out as 0 and 255 as 80.
C3_RampingLinear ==
    (last.op = "set_ramping" /\ TransportWorked) =>
        /\ last.result = Ok
        /\ Len(last.log) = 1
        /\ last.log[1].call = "write_all"
        /\ last.log[1].bytes[2] = 16
        /\ last.log[1].bytes[3] = (last.arg * 80) \div 255

\* C4: for every d in 0..255, set_deadband(d) on a working transport
\* succeeds and writes one frame with command 17 and data
\* (d * 127) div 255, so 0 goes out as 0 and 255 as 127.
C4_DeadbandLinear ==
    (last.op = "set_deadband" /\ TransportWorked) =>
        /\ last.result = Ok
        /\ Len(last.log) = 1
        /\ last.log[1].call = "write_all"
        /\ last.log[1].bytes[2] = 17
        /\ last.log[1].bytes[3] = (last.arg * 127) \div 255

\* C5: for every ms in 0..12700, set_serial_timeout(ms) on a working
\* transport writes one frame with command 14 whose data is the timeout in
\* tenths of a second (1 for 1..99 ms, else ms div 100): 0 ms goes out as 0
\* and 12700 ms as 127.
C5_TimeoutTenths ==
    (last.op = "set_serial_timeout" /\ last.arg <= 12700
        /\ TransportWorked) =>
        /\ last.result = Ok
        /\ Len(last.log) = 1
        /\ last.log[1].call = "write_all"
        /\ last.log[1].bytes[2] = 14
        /\ last.log[1].bytes[3] =
              (IF last.arg >= 1 /\ last.arg <= 99 THEN 1
               ELSE last.arg \div 100)

\* C6: a successful set_baud_rate(b), b one of 2400, 9600, 19200, 38400,
\* 115200, first writes one frame with command 15 and data 1, 2, 3, 4, 5
\* respectively, reconfigures the transport only after that write has
\* succeeded, and leaves the transport's baud rate equal to b.
C6_BaudWriteThenReconfigure ==
    (last.op = "set_baud_rate" /\ last.result = Ok) =>
        /\ last.arg \in {2400, 9600, 19200, 38400, 115200}
        /\ Len(last.log) = 2
        /\ last.log[1].call = "write_all"
        /\ last.log[1].ret = Ok
        /\ last.log[1].bytes[1] = last.before.address
        /\ last.log[1].bytes[2] = 15
        /\ <<last.arg, last.log[1].bytes[3]>> \in
              {<<2400, 1>>, <<9600, 2>>, <<19200, 3>>, <<38400, 4>>,
               <<115200, 5>>}
        /\ last.log[2].call = "set_baud_rate"
        /\ last.log[2].rate = last.arg
        /\ last.log[2].ret = Ok
        /\ baud = last.arg

C6_Witness ==
    /\ last.op = "set_baud_rate" /\ last.arg = 115200 /\ last.result = Ok
    /\ last.before.baud = 9600 /\ baud = 115200
    /\ last.log[1].bytes[3] = 5

\* C7: when the transport write of the baud-rate frame fails during
\* set_baud_rate(b) with a valid b, the call returns that error, no
\* reconfiguration of the transport is attempted and the transport's baud
\* rate is unchanged.
C7_FailedWriteKeepsBaud ==
    (last.op = "set_baud_rate" /\ FailedWriteIdx # {}) =>
        /\ last.result.tag = "Err"
        /\ \A i \in FailedWriteIdx :
              /\ last.result.description = last.log[i].ret.msg
              /\ last.result.kind = <<"Serial", <<"Io", last.log[i].ret.kind>>>>
        /\ BaudIdx = {}
        /\ baud = last.before.baud

C7_Witness ==
    /\ last.op = "set_baud_rate" /\ last.arg = 115200
    /\ FailedWriteIdx = {1}
    /\ last.before.baud = 9600 /\ baud = 9600
    /\ last.result.tag = "Err"

\* C8: a call rejected by input validation (set_baud_rate with a rate
\* outside the five valid ones, set_serial_timeout with ms > 12700) fails
\* with InvalidInput, makes no transport write, and leaves the transport's
\* baud rate and the encoder's address unchanged, whatever calls came
\* before.
C8_RejectedCallNoEffect ==
    (\/ (last.op = "set_baud_rate"
            /\ last.arg \notin {2400, 9600, 19200, 38400, 115200})
     \/ (last.op = "set_serial_timeout" /\ last.arg > 12700)) =>
        /\ last.result.tag = "Err"
        /\ last.result.kind = <<"InvalidInput">>
        /\ last.log = <<>>
        /\ frames_sent = last.before.frames_sent
        /\ baud = last.before.baud
        /\ address = last.before.address

C8_Witness ==
    /\ last.op = "set_serial_timeout" /\ last.arg = 13000
    /\ last.result.tag = "Err"
    /\ frames_sent = 1 /\ address = 129 /\ baud = 38400

\* C9: every frame a command-surface operation has written to the
\* transport has its data byte (byte2) in 0..127.
C9_DataByteSevenBits ==
    (last.op \in CommandOps) =>
        \A i \in WriteIdx : last.log[i].bytes[3] \in 0 .. 127

\* C10: when the transport fails during a frame write, the operation
\* returns one error of the Serial kind carrying the transport's sub-kind,
\* with the transport's message as description; never InvalidInput,
\* Response or Unknown; and it returns at once: that write is the only
\* write and the last thing asked of the transport.
C10_TransportErrorWrapped ==
    \A i \in FailedWriteIdx :
        /\ last.result.tag = "Err"
        /\ last.result.kind = <<"Serial", <<"Io", last.log[i].ret.kind>>>>
        /\ last.result.description = last.log[i].ret.msg
        /\ last.result.kind \notin
              {KindInvalidInput, KindResponse, KindUnknown}
        /\ WriteIdx = {i}
        /\ i = Len(last.log)
        /\ frames_sent = last.before.frames_sent

C10_Witness ==
    /\ last.op = "set_deadband"
    /\ FailedWriteIdx = {1}
    /\ last.result = Err(<<"Serial", <<"Io", "InvalidInput">>>>,
                         "Invalid argument")

\* C11: calling an operation twice in a row with identical arguments, both
\* calls succeeding, puts two bit-identical 4-byte frames on the wire; no
\* command-surface operation changes the encoder's address (the only
\* encoder state the bytes of a frame depend on).
C11_RepeatedCallSameFrame ==
    /\ (last.op \in CommandOps) => address = last.before.address
    /\ (last.op \in CommandOps /\ prev.same
            /\ prev.result = Ok /\ last.result = Ok) =>
        /\ Len(prev.frames) = 1
        /\ Len(AcceptedFrames(last.log)) = 1
        /\ Len(prev.frames[1]) = 4
        /\ AcceptedFrames(last.log)[1] = prev.frames[1]
        /\ frames_sent = last.before.frames_sent + 1

C11_Witness ==
    /\ last.op = "set_baud_rate" /\ last.arg = 19200
    /\ prev.same /\ prev.result = Ok /\ last.result = Ok
    /\ address = 129
    /\ prev.frames = <<(<<129, 15, 3, 19>>)>>
    /\ AcceptedFrames(last.log) = <<(<<129, 15, 3, 19>>)>>
    /\ frames_sent = 2

====
